---- MODULE Spec2Model ----
(***************************************************************************)
(* Underground Empire core: the in-memory round engine                     *)
(* (modules/consensus/consensus.go) and the validator registry             *)
(* (modules/validator, ValidatorManager).                                  *)
(*                                                                         *)
(* Timestamps (time.Now()) and the placeholder transaction of a proposed   *)
(* block carry no control flow and are left out of the records.            *)
(***************************************************************************)
EXTENDS Integers, Sequences, FiniteSets, TLC

VARIABLES
    CurrentHeight,      \* ConsensusState.CurrentHeight
    CurrentRound,       \* ConsensusState.CurrentRound
    Validators,         \* ConsensusState.Validators, the snapshot given at construction
    ProposerIndex,      \* ConsensusState.ProposerIndex (0-based, as in the code)
    Votes,              \* ConsensusState.Votes
    FinalizedBlocks,    \* ConsensusState.FinalizedBlocks, a sequence of *BlockData (indices into blocks)
    blocks,             \* the BlockData values allocated so far; a *BlockData is an index
    validators,         \* ValidatorManager.validators, map from ID to ValidatorNode
    last,               \* the last call made: operation, argument, error and returned value
    pc,                 \* demo-consensus: the statement the command is at
    loopI,              \* demo-consensus: the loop counter i
    loopBlock,          \* demo-consensus: the local variable block (a *BlockData)
    Mutex,              \* ConsensusState.Mutex: TRUE while locked
    callers,            \* concurrent callers: the call each one is in and where it stands
    started             \* concurrent callers: the number of calls invoked so far

engine == <<CurrentHeight, CurrentRound, Validators, ProposerIndex, Votes, FinalizedBlocks>>

demo == <<pc, loopI, loopBlock>>

conc == <<Mutex, callers, started>>

vars == <<CurrentHeight, CurrentRound, Validators, ProposerIndex, Votes, FinalizedBlocks,
          blocks, validators, last, pc, loopI, loopBlock, Mutex, callers, started>>

(***************************************************************************)
(* Program constants                                                       *)
(***************************************************************************)
MinValidatorStake == 28846

ConsensusThreshold == 67

VoteTypePreVote == "pre_vote"

VoteTypePreCommit == "pre_commit"

ValidatorStatusActive == "active"

ValidatorStatusInactive == "inactive"

ValidatorStatusSlashed == "slashed"

ValidatorStatusJailed == "jailed"

(***************************************************************************)
(* Bounds of the model                                                     *)
(***************************************************************************)
MaxValidators == 3

MaxHeight == 3

MaxBlocks == 3

MaxRounds == 2

MaxIterations == 12

\* calls the concurrent callers invoke in all
MaxCalls == 4

(***************************************************************************)
(* Values                                                                  *)
(***************************************************************************)
\* the validator IDs of the demo: "val1", "val2", ...
ValID(i) == "val" \o ToString(i)

\* a ValidatorNode literal as the demo builds it: ID and StakeAmount set, Status left ""
DemoNode(i) == [ID |-> ValID(i), StakeAmount |-> 30000, Status |-> "", Commission |-> 0]

\* the slice handed to NewInMemoryConsensusEngine
Snapshot(n) == [i \in 1..n |-> DemoNode(i)]

\* fmt.Sprintf("block_%d", height)
BlockHash(height) == "block_" \o ToString(height)

\* &types.BlockData{}: a block value the caller made itself, not one ProposeBlock returned
ZeroBlock == [Height |-> 0, Hash |-> "", Proposer |-> "", Finalized |-> FALSE]

Call(op, arg, err, ret) == [op |-> op, arg |-> arg, err |-> err, ret |-> ret]

(***************************************************************************)
(* NewInMemoryConsensusEngine                                              *)
(***************************************************************************)
NewInMemoryConsensusEngine(initialValidators) ==
    /\ CurrentHeight = 1
    /\ CurrentRound = 0
    /\ Validators = initialValidators
    /\ ProposerIndex = 0
    /\ Votes = <<>>
    /\ FinalizedBlocks = <<>>

NewValidatorManager == validators = [id \in {} |-> 0]

\* the demo command is not running
NoDemo == pc = "none" /\ loopI = 0 /\ loopBlock = 0

\* the goroutines that may call the engine, beside the single caller of the
\* sections below; idle, none of them holds or awaits the Mutex
Callers == {"c1", "c2"}

IdleCaller ==
    [pc |-> "idle", op |-> "", block |-> 0, k |-> 0, preCommits |-> 0,
     err |-> "nil", ret |-> 0]

NoCallers ==
    /\ Mutex = FALSE
    /\ callers = [c \in Callers |-> IdleCaller]
    /\ started = 0

(***************************************************************************)
(* ProposeBlock                                                            *)
(***************************************************************************)
\* mutant: the proposer is always the first validator of the snapshot
ProposeBlockFirstValidator ==
    /\ IF Len(Validators) = 0
       THEN /\ blocks' = blocks
            /\ last' = Call("ProposeBlock", 0, "NoValidators", 0)
       ELSE LET proposer == Validators[1]
                block == [Height    |-> CurrentHeight,
                          Hash      |-> BlockHash(CurrentHeight),
                          Proposer  |-> proposer.ID,
                          Finalized |-> FALSE]
            IN /\ blocks' = Append(blocks, block)
               /\ last' = Call("ProposeBlock", 0, "nil", Len(blocks) + 1)
    /\ UNCHANGED <<engine, validators>>

\* mutant: a proposer the registry no longer lists as active is refused
ProposeBlockActiveOnly ==
    /\ IF \/ Len(Validators) = 0
          \/ /\ Validators[ProposerIndex + 1].ID \in DOMAIN validators
             /\ validators[Validators[ProposerIndex + 1].ID].Status /= "active"
       THEN /\ blocks' = blocks
            /\ last' = Call("ProposeBlock", 0, "NoValidators", 0)
       ELSE LET proposer == Validators[ProposerIndex + 1]
                block == [Height    |-> CurrentHeight,
                          Hash      |-> BlockHash(CurrentHeight),
                          Proposer  |-> proposer.ID,
                          Finalized |-> FALSE]
            IN /\ blocks' = Append(blocks, block)
               /\ last' = Call("ProposeBlock", 0, "nil", Len(blocks) + 1)
    /\ UNCHANGED <<engine, validators>>

ProposeBlock ==
    /\ IF Len(Validators) = 0
       THEN /\ blocks' = blocks
            /\ last' = Call("ProposeBlock", 0, "NoValidators", 0)
       ELSE LET proposer == Validators[ProposerIndex + 1]
                block == [Height    |-> CurrentHeight,
                          Hash      |-> BlockHash(CurrentHeight),
                          Proposer  |-> proposer.ID,
                          Finalized |-> FALSE]
            IN /\ blocks' = Append(blocks, block)
               /\ last' = Call("ProposeBlock", 0, "nil", Len(blocks) + 1)
    /\ UNCHANGED <<engine, validators>>

(***************************************************************************)
(* PreVote / PreCommit                                                     *)
(***************************************************************************)
\* mutant: a validator that already has this vote in the sequence is skipped
CastVotesOnce(votes, vals, hash, type) ==
    votes \o SelectSeq([k \in 1..Len(vals) |->
                          [ValidatorID |-> vals[k].ID, BlockHash |-> hash, Type |-> type]],
                      LAMBDA v : \A j \in DOMAIN votes : votes[j] # v)

\* the loop "for _, v := range ce.state.Validators { append(Votes, vote) }"
CastVotes(votes, vals, hash, type) ==
    votes \o [k \in 1..Len(vals) |->
                [ValidatorID |-> vals[k].ID, BlockHash |-> hash, Type |-> type]]

PreVote(block) ==
    /\ Votes' = CastVotes(Votes, Validators, blocks[block].Hash, VoteTypePreVote)
    /\ last' = Call("PreVote", block, "nil", 0)
    /\ UNCHANGED <<CurrentHeight, CurrentRound, Validators, ProposerIndex,
                   FinalizedBlocks, blocks, validators>>

\* mutant: the pre-commit phase records votes of type pre_vote
PreCommitAsPreVote(block) ==
    /\ Votes' = CastVotes(Votes, Validators, blocks[block].Hash, VoteTypePreVote)
    /\ last' = Call("PreCommit", block, "nil", 0)
    /\ UNCHANGED <<CurrentHeight, CurrentRound, Validators, ProposerIndex,
                   FinalizedBlocks, blocks, validators>>

PreCommit(block) ==
    /\ Votes' = CastVotes(Votes, Validators, blocks[block].Hash, VoteTypePreCommit)
    /\ last' = Call("PreCommit", block, "nil", 0)
    /\ UNCHANGED <<CurrentHeight, CurrentRound, Validators, ProposerIndex,
                   FinalizedBlocks, blocks, validators>>

(***************************************************************************)
(* FinalizeBlock                                                           *)
(***************************************************************************)
\* the counting loop over ce.state.Votes
RECURSIVE CountPreCommits(_, _)
CountPreCommits(votes, hash) ==
    IF votes = <<>> THEN 0
    ELSE (IF Head(votes).BlockHash = hash /\ Head(votes).Type = VoteTypePreCommit
          THEN 1 ELSE 0) + CountPreCommits(Tail(votes), hash)

\* mutant: the threshold has to be exceeded
QuorumReachedStrict(preCommits, totalValidators) ==
    (preCommits * 100) \div totalValidators > ConsensusThreshold

\* percentage := (preCommits * 100) / totalValidators; percentage >= ConsensusThreshold
QuorumReached(preCommits, totalValidators) ==
    (preCommits * 100) \div totalValidators >= ConsensusThreshold

\* mutant: the proposer index is not advanced
NextProposerIndexStuck(index, totalValidators) == index

NextProposerIndex(index, totalValidators) == (index + 1) % totalValidators

\* mutant: the votes of the finalized round are kept
FinalizeBlockKeepVotes(block) ==
    LET totalValidators == Len(Validators)
        preCommits == CountPreCommits(Votes, blocks[block].Hash)
    IN IF totalValidators = 0
       THEN /\ last' = Call("FinalizeBlock", block, "NoValidators", 0)
            /\ UNCHANGED <<engine, blocks, validators>>
       ELSE IF QuorumReached(preCommits, totalValidators)
       THEN /\ blocks' = [blocks EXCEPT ![block].Finalized = TRUE]
            /\ FinalizedBlocks' = Append(FinalizedBlocks, block)
            /\ CurrentHeight' = CurrentHeight + 1
            /\ ProposerIndex' = NextProposerIndex(ProposerIndex, totalValidators)
            /\ Votes' = Votes
            /\ last' = Call("FinalizeBlock", block, "nil", 0)
            /\ UNCHANGED <<CurrentRound, Validators, validators>>
       ELSE /\ last' = Call("FinalizeBlock", block, "QuorumNotReached", 0)
            /\ UNCHANGED <<engine, blocks, validators>>

\* mutant: a finalization opens the next round
FinalizeBlockNextRound(block) ==
    LET totalValidators == Len(Validators)
        preCommits == CountPreCommits(Votes, blocks[block].Hash)
    IN IF totalValidators = 0
       THEN /\ last' = Call("FinalizeBlock", block, "NoValidators", 0)
            /\ UNCHANGED <<engine, blocks, validators>>
       ELSE IF QuorumReached(preCommits, totalValidators)
       THEN /\ blocks' = [blocks EXCEPT ![block].Finalized = TRUE]
            /\ FinalizedBlocks' = Append(FinalizedBlocks, block)
            /\ CurrentHeight' = CurrentHeight + 1
            /\ CurrentRound' = CurrentRound + 1
            /\ ProposerIndex' = NextProposerIndex(ProposerIndex, totalValidators)
            /\ Votes' = <<>>
            /\ last' = Call("FinalizeBlock", block, "nil", 0)
            /\ UNCHANGED <<Validators, validators>>
       ELSE /\ last' = Call("FinalizeBlock", block, "QuorumNotReached", 0)
            /\ UNCHANGED <<engine, blocks, validators>>

\* mutant: a finalization credits the block reward to the proposer's stake
FinalizeBlockRewarding(block) ==
    LET totalValidators == Len(Validators)
        preCommits == CountPreCommits(Votes, blocks[block].Hash)
        proposer == blocks[block].Proposer
    IN IF totalValidators = 0
       THEN /\ last' = Call("FinalizeBlock", block, "NoValidators", 0)
            /\ UNCHANGED <<engine, blocks, validators>>
       ELSE IF QuorumReached(preCommits, totalValidators)
       THEN /\ blocks' = [blocks EXCEPT ![block].Finalized = TRUE]
            /\ FinalizedBlocks' = Append(FinalizedBlocks, block)
            /\ CurrentHeight' = CurrentHeight + 1
            /\ ProposerIndex' = NextProposerIndex(ProposerIndex, totalValidators)
            /\ Votes' = <<>>
            /\ validators' = [id \in DOMAIN validators |->
                                 IF id = proposer
                                 THEN [validators[id] EXCEPT !.StakeAmount = @ + 1000]
                                 ELSE validators[id]]
            /\ last' = Call("FinalizeBlock", block, "nil", 0)
            /\ UNCHANGED <<CurrentRound, Validators>>
       ELSE /\ last' = Call("FinalizeBlock", block, "QuorumNotReached", 0)
            /\ UNCHANGED <<engine, blocks, validators>>

\* mutant: a rejected block drops the votes of its round
FinalizeBlockClearOnReject(block) ==
    LET totalValidators == Len(Validators)
        preCommits == CountPreCommits(Votes, blocks[block].Hash)
    IN IF totalValidators = 0
       THEN /\ last' = Call("FinalizeBlock", block, "NoValidators", 0)
            /\ UNCHANGED <<engine, blocks, validators>>
       ELSE IF QuorumReached(preCommits, totalValidators)
       THEN /\ blocks' = [blocks EXCEPT ![block].Finalized = TRUE]
            /\ FinalizedBlocks' = Append(FinalizedBlocks, block)
            /\ CurrentHeight' = CurrentHeight + 1
            /\ ProposerIndex' = NextProposerIndex(ProposerIndex, totalValidators)
            /\ Votes' = <<>>
            /\ last' = Call("FinalizeBlock", block, "nil", 0)
            /\ UNCHANGED <<CurrentRound, Validators, validators>>
       ELSE /\ Votes' = <<>>
            /\ last' = Call("FinalizeBlock", block, "QuorumNotReached", 0)
            /\ UNCHANGED <<CurrentHeight, CurrentRound, Validators, ProposerIndex,
                           FinalizedBlocks, blocks, validators>>

FinalizeBlock(block) ==
    LET totalValidators == Len(Validators)
        preCommits == CountPreCommits(Votes, blocks[block].Hash)
    IN IF totalValidators = 0
       THEN /\ last' = Call("FinalizeBlock", block, "NoValidators", 0)
            /\ UNCHANGED <<engine, blocks, validators>>
       ELSE IF QuorumReached(preCommits, totalValidators)
       THEN /\ blocks' = [blocks EXCEPT ![block].Finalized = TRUE]
            /\ FinalizedBlocks' = Append(FinalizedBlocks, block)
            /\ CurrentHeight' = CurrentHeight + 1
            /\ ProposerIndex' = NextProposerIndex(ProposerIndex, totalValidators)
            /\ Votes' = <<>>
            /\ last' = Call("FinalizeBlock", block, "nil", 0)
            /\ UNCHANGED <<CurrentRound, Validators, validators>>
       ELSE /\ last' = Call("FinalizeBlock", block, "QuorumNotReached", 0)
            /\ UNCHANGED <<engine, blocks, validators>>

(***************************************************************************)
(* Validator registry: ValidatorManager                                    *)
(***************************************************************************)
Node(id, stake, status, commission) ==
    [ID |-> id, StakeAmount |-> stake, Status |-> status, Commission |-> commission]

\* mutant: the minimum stake itself is not enough
IsValidatorEligibleStrict(stakeAmount) == stakeAmount > MinValidatorStake

\* types.IsValidatorEligible
IsValidatorEligible(stakeAmount) == stakeAmount >= MinValidatorStake

\* vm.validators[node.ID] = node
Store(map, node) ==
    [id \in DOMAIN map \cup {node.ID} |-> IF id = node.ID THEN node ELSE map[id]]

\* mutant: no check for an existing record
RegisterNodeOverwrite(node) ==
    /\ IF ~IsValidatorEligible(node.StakeAmount)
       THEN /\ last' = Call("RegisterNode", node, "InsufficientStake", 0)
            /\ UNCHANGED validators
       ELSE /\ validators' = Store(validators, [node EXCEPT !.Status = ValidatorStatusActive])
            /\ last' = Call("RegisterNode", node, "nil", 0)
    /\ UNCHANGED <<engine, blocks>>

\* mutant: a validator that left may register again
RegisterNodeRejoin(node) ==
    /\ IF ~IsValidatorEligible(node.StakeAmount)
       THEN /\ last' = Call("RegisterNode", node, "InsufficientStake", 0)
            /\ UNCHANGED validators
       ELSE IF node.ID \in DOMAIN validators
               /\ validators[node.ID].Status = ValidatorStatusActive
       THEN /\ last' = Call("RegisterNode", node, "DuplicateValidator", 0)
            /\ UNCHANGED validators
       ELSE /\ validators' = Store(validators, [node EXCEPT !.Status = ValidatorStatusActive])
            /\ last' = Call("RegisterNode", node, "nil", 0)
    /\ UNCHANGED <<engine, blocks>>

RegisterNode(node) ==
    /\ IF ~IsValidatorEligible(node.StakeAmount)
       THEN /\ last' = Call("RegisterNode", node, "InsufficientStake", 0)
            /\ UNCHANGED validators
       ELSE IF node.ID \in DOMAIN validators
       THEN /\ last' = Call("RegisterNode", node, "DuplicateValidator", 0)
            /\ UNCHANGED validators
       ELSE /\ validators' = Store(validators, [node EXCEPT !.Status = ValidatorStatusActive])
            /\ last' = Call("RegisterNode", node, "nil", 0)
    /\ UNCHANGED <<engine, blocks>>

\* mutant: the record is deleted
DeregisterNodeDelete(nodeID) ==
    /\ IF nodeID \notin DOMAIN validators
       THEN /\ last' = Call("DeregisterNode", nodeID, "ValidatorNotFound", 0)
            /\ UNCHANGED validators
       ELSE /\ validators' = [id \in DOMAIN validators \ {nodeID} |-> validators[id]]
            /\ last' = Call("DeregisterNode", nodeID, "nil", 0)
    /\ UNCHANGED <<engine, blocks>>

DeregisterNode(nodeID) ==
    /\ IF nodeID \notin DOMAIN validators
       THEN /\ last' = Call("DeregisterNode", nodeID, "ValidatorNotFound", 0)
            /\ UNCHANGED validators
       ELSE /\ validators' = Store(validators,
                                   [validators[nodeID] EXCEPT !.Status = ValidatorStatusInactive])
            /\ last' = Call("DeregisterNode", nodeID, "nil", 0)
    /\ UNCHANGED <<engine, blocks>>

\* mutant: every record is listed
GetActiveValidatorsAll == DOMAIN validators

\* the validators with status active, as a set (map iteration has no fixed order)
GetActiveValidators ==
    {id \in DOMAIN validators : validators[id].Status = ValidatorStatusActive}

\* mutant: an unknown ID is stored instead of refused
UpdateValidatorUpsert(node) ==
    /\ validators' = Store(validators, node)
    /\ last' = Call("UpdateValidator", node, "nil", 0)
    /\ UNCHANGED <<engine, blocks>>

UpdateValidator(node) ==
    /\ IF node.ID \notin DOMAIN validators
       THEN /\ last' = Call("UpdateValidator", node, "ValidatorNotFound", 0)
            /\ UNCHANGED validators
       ELSE /\ validators' = Store(validators, node)
            /\ last' = Call("UpdateValidator", node, "nil", 0)
    /\ UNCHANGED <<engine, blocks>>

\* the SlashRecord values the manager holds: the ValidatorManager struct has the
\* validators map as its only field, and no method creates a SlashRecord
SlashRecords == <<>>

\* mutant: the total is the stake of one active validator, not the sum
SumStakeOne(ids) ==
    IF ids = {} THEN 0 ELSE validators[CHOOSE x \in ids : TRUE].StakeAmount

\* the loop "totalStake += v.StakeAmount" over the active validators
RECURSIVE SumStake(_)
SumStake(ids) ==
    IF ids = {} THEN 0
    ELSE LET id == CHOOSE x \in ids : TRUE
         IN validators[id].StakeAmount + SumStake(ids \ {id})

GetTotalStake == SumStake(GetActiveValidators)

GetValidatorCount == Cardinality(GetActiveValidators)

\* mutant: the share is rounded up
CalculateValidatorRewardCeil(stakeAmount, totalStake, blockReward) ==
    IF totalStake = 0 THEN 0
    ELSE (stakeAmount * blockReward + totalStake - 1) \div totalStake

\* types.CalculateValidatorReward; the stakes the model draws keep
\* stakeAmount * blockReward far below 2^64, where the uint64 product is exact
CalculateValidatorReward(stakeAmount, totalStake, blockReward) ==
    IF totalStake = 0 THEN 0 ELSE (stakeAmount * blockReward) \div totalStake

CalculateRewards(nodeID) ==
    /\ IF nodeID \notin DOMAIN validators
       THEN last' = Call("CalculateRewards", nodeID, "nil", 0)
       ELSE last' = Call("CalculateRewards", nodeID, "nil",
                         CalculateValidatorReward(validators[nodeID].StakeAmount,
                                                  SumStake(GetActiveValidators), 1000))
    /\ UNCHANGED <<engine, blocks, validators>>

\* mutant: every reason costs 10%
calculateSlashAmountFlat(stakeAmount, reason) == stakeAmount \div 10

calculateSlashAmount(stakeAmount, reason) ==
    CASE reason = "double_signing" -> stakeAmount \div 2
      [] reason = "downtime"       -> stakeAmount \div 10
      [] reason = "invalid_block"  -> stakeAmount \div 4
      [] reason = "equivocation"   -> stakeAmount \div 2
      [] OTHER                     -> stakeAmount \div 10

\* mutant: the stake left is kept even when it is below the minimum
SlashNodeNoFloor(nodeID, reason) ==
    /\ IF nodeID \notin DOMAIN validators
       THEN /\ last' = Call("SlashNode", <<nodeID, reason>>, "ValidatorNotFound", 0)
            /\ UNCHANGED validators
       ELSE LET validator == validators[nodeID]
                slashAmount == calculateSlashAmount(validator.StakeAmount, reason)
                remaining == validator.StakeAmount - slashAmount
            IN /\ validators' = Store(validators,
                     [validator EXCEPT !.Status = ValidatorStatusSlashed,
                                       !.StakeAmount = remaining])
               /\ last' = Call("SlashNode", <<nodeID, reason>>, "nil", 0)
    /\ UNCHANGED <<engine, blocks>>

\* slashAmount is stakeAmount divided by 2, 4 or 10, so the uint64 subtraction
\* "validator.StakeAmount -= slashAmount" never wraps
SlashNode(nodeID, reason) ==
    /\ IF nodeID \notin DOMAIN validators
       THEN /\ last' = Call("SlashNode", <<nodeID, reason>>, "ValidatorNotFound", 0)
            /\ UNCHANGED validators
       ELSE LET validator == validators[nodeID]
                slashAmount == calculateSlashAmount(validator.StakeAmount, reason)
                remaining == validator.StakeAmount - slashAmount
            IN /\ validators' = Store(validators,
                     [validator EXCEPT !.Status = ValidatorStatusSlashed,
                                       !.StakeAmount = IF remaining < MinValidatorStake
                                                       THEN 0 ELSE remaining])
               /\ last' = Call("SlashNode", <<nodeID, reason>>, "nil", 0)
    /\ UNCHANGED <<engine, blocks>>

(***************************************************************************)
(* The registry driven by an arbitrary caller                              *)
(***************************************************************************)
\* the arguments the caller draws from: two IDs, stakes below, at and at twice the
\* minimum, a supplied status, a commission inside and outside 0..10000
RegistryIDs == {"val1", "val2"}

Stakes == {MinValidatorStake - 1, MinValidatorStake, 2 * MinValidatorStake}

Statuses == {ValidatorStatusActive, ValidatorStatusJailed}

Commissions == {500, 10001}

SlashReasons == {"double_signing", "downtime", "invalid_block", "equivocation", "spam"}

Nodes == {Node(id, stake, status, commission) :
            id \in RegistryIDs, stake \in Stakes, status \in Statuses, commission \in Commissions}

InitRegistry ==
    /\ NewInMemoryConsensusEngine(Snapshot(0))
    /\ NewValidatorManager
    /\ blocks = <<>>
    /\ last = Call("New", 0, "nil", 0)
    /\ NoDemo
    /\ NoCallers

NextRegistry ==
    \/ \E node \in Nodes : RegisterNode(node) /\ UNCHANGED <<demo, conc>>
    \/ \E id \in RegistryIDs : DeregisterNode(id) /\ UNCHANGED <<demo, conc>>
    \/ \E node \in Nodes : UpdateValidator(node) /\ UNCHANGED <<demo, conc>>
    \/ \E id \in RegistryIDs : CalculateRewards(id) /\ UNCHANGED <<demo, conc>>
    \/ \E id \in RegistryIDs, reason \in SlashReasons : SlashNode(id, reason) /\ UNCHANGED <<demo, conc>>

SpecRegistry == InitRegistry /\ [][NextRegistry]_vars


(***************************************************************************)
(* CalculateRewards on a registry an earlier caller left behind            *)
(***************************************************************************)
\* RegisterNode followed by UpdateValidator stores any stake and any status
\* under a registered ID, a zero stake with status active included
RewardStakes == {0, 1, MinValidatorStake, 2 * MinValidatorStake}

RewardStatuses == {ValidatorStatusActive, ValidatorStatusInactive, ValidatorStatusSlashed}

StoredRegistries ==
    UNION {{[id \in ids |-> Node(id, pick[id][1], pick[id][2], 0)] :
               pick \in [ids -> RewardStakes \X RewardStatuses]} :
           ids \in SUBSET RegistryIDs}

InitReward ==
    /\ NewInMemoryConsensusEngine(Snapshot(0))
    /\ validators \in StoredRegistries
    /\ blocks = <<>>
    /\ last = Call("New", 0, "nil", 0)
    /\ NoDemo
    /\ NoCallers

NextReward ==
    \E id \in RegistryIDs : CalculateRewards(id) /\ UNCHANGED <<demo, conc>>

SpecReward == InitReward /\ [][NextReward]_vars


(***************************************************************************)
(* Registration, deregistration, slashing and the aggregates on a registry *)
(* an earlier caller left behind                                           *)
(***************************************************************************)
\* calls of the read-only methods, with what they return
CallGetActiveValidators ==
    /\ last' = Call("GetActiveValidators", 0, "nil", GetActiveValidators)
    /\ UNCHANGED <<engine, blocks, validators>>

CallGetTotalStake ==
    /\ last' = Call("GetTotalStake", 0, "nil", GetTotalStake)
    /\ UNCHANGED <<engine, blocks, validators>>

CallGetValidatorCount ==
    /\ last' = Call("GetValidatorCount", 0, "nil", GetValidatorCount)
    /\ UNCHANGED <<engine, blocks, validators>>

\* the nodes offered for registration and the causes of a slash
StoredNodes ==
    {Node(id, stake, "", 0) :
        id \in RegistryIDs, stake \in {MinValidatorStake - 1, 2 * MinValidatorStake}}

StoredReasons == {"double_signing", "downtime"}

NextStored ==
    \/ \E node \in StoredNodes : RegisterNode(node) /\ UNCHANGED <<demo, conc>>
    \/ \E id \in RegistryIDs : DeregisterNode(id) /\ UNCHANGED <<demo, conc>>
    \/ \E id \in RegistryIDs, reason \in StoredReasons :
          SlashNode(id, reason) /\ UNCHANGED <<demo, conc>>
    \/ CallGetActiveValidators /\ UNCHANGED <<demo, conc>>
    \/ CallGetTotalStake /\ UNCHANGED <<demo, conc>>
    \/ CallGetValidatorCount /\ UNCHANGED <<demo, conc>>

SpecStored == InitReward /\ [][NextStored]_vars


(***************************************************************************)
(* The round engine driven by an arbitrary caller                          *)
(***************************************************************************)
\* room for one more round of votes
VoteRoom == Len(Votes) < MaxRounds * Len(Validators) \/ Len(Validators) = 0

Init ==
    /\ \E n \in 0..MaxValidators : NewInMemoryConsensusEngine(Snapshot(n))
    /\ NewValidatorManager
    /\ blocks \in {<<>>, <<ZeroBlock>>}
    /\ last = Call("New", 0, "nil", 0)
    /\ NoDemo
    /\ NoCallers

Next ==
    \/ Len(blocks) < MaxBlocks /\ ProposeBlock /\ UNCHANGED <<demo, conc>>
    \/ \E b \in DOMAIN blocks : VoteRoom /\ PreVote(b) /\ UNCHANGED <<demo, conc>>
    \/ \E b \in DOMAIN blocks : VoteRoom /\ PreCommit(b) /\ UNCHANGED <<demo, conc>>
    \/ \E b \in DOMAIN blocks : CurrentHeight < MaxHeight /\ FinalizeBlock(b) /\ UNCHANGED <<demo, conc>>

Spec == Init /\ [][Next]_vars

(***************************************************************************)
(* FinalizeBlock applied to a given vote sequence (the state handle of     *)
(* GetState lets a caller or a test put any votes in place)                *)
(***************************************************************************)
QuorumSizes == (0..MaxValidators) \cup {4, 10, 100}

PreCommitsFor(n, c, hash) ==
    [k \in 1..c |-> [ValidatorID |-> ValID(IF n = 0 THEN 1 ELSE ((k - 1) % n) + 1),
                     BlockHash |-> hash, Type |-> VoteTypePreCommit]]

OtherVotes ==
    { <<>>,
      <<[ValidatorID |-> ValID(1), BlockHash |-> BlockHash(1), Type |-> VoteTypePreVote]>>,
      <<[ValidatorID |-> ValID(1), BlockHash |-> BlockHash(2), Type |-> VoteTypePreCommit]>> }

InitQuorum ==
    /\ \E n \in QuorumSizes : \E c \in 0..(n + 1) : \E other \in OtherVotes :
          /\ CurrentHeight = 1
          /\ CurrentRound = 0
          /\ Validators = Snapshot(n)
          /\ ProposerIndex = 0
          /\ Votes = other \o PreCommitsFor(n, c, BlockHash(1))
          /\ FinalizedBlocks = <<>>
    /\ NewValidatorManager
    /\ blocks = <<[Height |-> 1, Hash |-> BlockHash(1), Proposer |-> ValID(1), Finalized |-> FALSE]>>
    /\ last = Call("New", 0, "nil", 0)
    /\ NoDemo
    /\ NoCallers

NextQuorum ==
    \E b \in DOMAIN blocks : CurrentHeight < MaxHeight /\ FinalizeBlock(b) /\ UNCHANGED <<demo, conc>>

SpecQuorum == InitQuorum /\ [][NextQuorum]_vars

(***************************************************************************)
(* types.IsConsensusReached, called with the count of matching pre-commits *)
(* and the number of validators, next to FinalizeBlock on the same votes   *)
(***************************************************************************)
\* mutant: two thirds of the validators, as a fraction
IsConsensusReachedTwoThirds(votes, totalValidators) ==
    votes * 3 >= totalValidators * 2

\* types.IsConsensusReached; the counts are lengths of slices in memory, far
\* below the point where votes * 100 leaves 64 bits
IsConsensusReached(votes, totalValidators) ==
    IF totalValidators = 0
    THEN FALSE
    ELSE (votes * 100) \div totalValidators >= ConsensusThreshold

CallIsConsensusReached(votes, totalValidators) ==
    /\ last' = Call("IsConsensusReached", <<votes, totalValidators>>, "nil",
                    IsConsensusReached(votes, totalValidators))
    /\ UNCHANGED <<engine, blocks, validators>>

NextHelper ==
    \/ \E b \in DOMAIN blocks :
          /\ CallIsConsensusReached(CountPreCommits(Votes, blocks[b].Hash), Len(Validators))
          /\ UNCHANGED <<demo, conc>>
    \/ \E b \in DOMAIN blocks :
          CurrentHeight < MaxHeight /\ FinalizeBlock(b) /\ UNCHANGED <<demo, conc>>

SpecHelper == InitQuorum /\ [][NextHelper]_vars

(***************************************************************************)
(* The demo-consensus command (cmd/ued/main.go)                            *)
(***************************************************************************)
InitDemo ==
    /\ \E n \in 1..MaxValidators : NewInMemoryConsensusEngine(Snapshot(n))
    /\ NewValidatorManager
    /\ blocks = <<>>
    /\ last = Call("New", 0, "nil", 0)
    /\ pc = "register" /\ loopI = 0 /\ loopBlock = 0
    /\ NoCallers

\* for _, v := range vals { valMgr.RegisterNode(types.Context{}, v) }
DemoRegister ==
    /\ pc = "register"
    /\ IF loopI < Len(Validators)
       THEN RegisterNode(Validators[loopI + 1]) /\ loopI' = loopI + 1 /\ pc' = pc
       ELSE UNCHANGED <<engine, blocks, validators, last>> /\ loopI' = 0 /\ pc' = "propose"
    /\ loopBlock' = loopBlock

\* block, _ := engine.ProposeBlock()
DemoPropose ==
    /\ pc = "propose"
    /\ IF loopI < MaxIterations
       THEN ProposeBlock /\ loopBlock' = last'.ret /\ pc' = "prevote"
       ELSE UNCHANGED <<engine, blocks, validators, last, loopBlock>> /\ pc' = "done"
    /\ loopI' = loopI

DemoPreVote ==
    /\ pc = "prevote"
    /\ PreVote(loopBlock)
    /\ pc' = "precommit"
    /\ UNCHANGED <<loopI, loopBlock>>

DemoPreCommit ==
    /\ pc = "precommit"
    /\ PreCommit(loopBlock)
    /\ pc' = "finalize"
    /\ UNCHANGED <<loopI, loopBlock>>

DemoFinalize ==
    /\ pc = "finalize"
    /\ FinalizeBlock(loopBlock)
    /\ pc' = "propose"
    /\ loopI' = loopI + 1
    /\ loopBlock' = loopBlock

NextDemo ==
    \/ DemoRegister /\ UNCHANGED conc
    \/ DemoPropose /\ UNCHANGED conc
    \/ DemoPreVote /\ UNCHANGED conc
    \/ DemoPreCommit /\ UNCHANGED conc
    \/ DemoFinalize /\ UNCHANGED conc

SpecDemo == InitDemo /\ [][NextDemo]_vars

(***************************************************************************)
(* The round loop of demo-consensus with the registry in use by the rest   *)
(* of the node: once the engine is constructed, validators are             *)
(* deregistered and slashed and a new one is registered between the calls  *)
(* of the loop                                                             *)
(***************************************************************************)
\* GetState returns the state handle and touches nothing
GetState ==
    /\ last' = Call("GetState", 0, "nil", engine)
    /\ UNCHANGED <<engine, blocks, validators>>

\* a validator that is not in the engine's list
Newcomer == [ID |-> ValID(Len(Validators) + 1), StakeAmount |-> 30000,
             Status |-> "", Commission |-> 0]

NextNode ==
    \/ DemoRegister /\ UNCHANGED conc
    \/ DemoPropose /\ UNCHANGED conc
    \/ DemoPreVote /\ UNCHANGED conc
    \/ DemoPreCommit /\ UNCHANGED conc
    \/ DemoFinalize /\ UNCHANGED conc
    \/ pc /= "register" /\ GetState /\ UNCHANGED <<demo, conc>>
    \/ pc /= "register" /\ RegisterNode(Newcomer) /\ UNCHANGED <<demo, conc>>
    \/ \E k \in DOMAIN Validators :
          pc /= "register" /\ DeregisterNode(Validators[k].ID) /\ UNCHANGED <<demo, conc>>
    \/ \E k \in DOMAIN Validators, reason \in StoredReasons :
          pc /= "register" /\ SlashNode(Validators[k].ID, reason) /\ UNCHANGED <<demo, conc>>

SpecNode == InitDemo /\ [][NextNode]_vars

(***************************************************************************)
(* The round engine called by several goroutines at once.  Each operation  *)
(* is "Mutex.Lock(); defer Mutex.Unlock(); body": a caller waits at Lock,  *)
(* runs the body statement by statement, and the deferred Unlock runs on   *)
(* every return.                                                           *)
(***************************************************************************)
EngineOps == {"ProposeBlock", "PreVote", "PreCommit", "FinalizeBlock"}

BodyOf(op) ==
    CASE op = "ProposeBlock"  -> "propose"
      [] op = "PreVote"       -> "vote"
      [] op = "PreCommit"     -> "vote"
      [] op = "FinalizeBlock" -> "count"

\* the call is made: the caller arrives at ce.state.Mutex.Lock()
Invoke(c, op, block) ==
    /\ callers[c].pc = "idle"
    /\ callers' = [callers EXCEPT ![c] =
                      [IdleCaller EXCEPT !.pc = "Lock", !.op = op, !.block = block]]
    /\ started' = started + 1
    /\ UNCHANGED <<engine, blocks, validators, last, Mutex>>

\* mutant: Lock returns although the Mutex is held
LockNoWait(c) ==
    /\ callers[c].pc = "Lock"
    /\ Mutex' = TRUE
    /\ callers' = [callers EXCEPT ![c].pc = BodyOf(callers[c].op)]
    /\ UNCHANGED <<engine, blocks, validators, last, started>>

\* ce.state.Mutex.Lock() returns once the Mutex is free
Lock(c) ==
    /\ callers[c].pc = "Lock"
    /\ Mutex = FALSE
    /\ Mutex' = TRUE
    /\ callers' = [callers EXCEPT ![c].pc = BodyOf(callers[c].op)]
    /\ UNCHANGED <<engine, blocks, validators, last, started>>

\* the body of ProposeBlock
ProposeBody(c) ==
    /\ callers[c].pc = "propose"
    /\ IF Len(Validators) = 0
       THEN /\ blocks' = blocks
            /\ callers' = [callers EXCEPT ![c].pc = "Unlock", ![c].err = "NoValidators"]
       ELSE LET proposer == Validators[ProposerIndex + 1]
                block == [Height    |-> CurrentHeight,
                          Hash      |-> BlockHash(CurrentHeight),
                          Proposer  |-> proposer.ID,
                          Finalized |-> FALSE]
            IN /\ blocks' = Append(blocks, block)
               /\ callers' = [callers EXCEPT ![c].pc = "Unlock",
                                             ![c].ret = Len(blocks) + 1]
    /\ UNCHANGED <<engine, validators, last, Mutex, started>>

\* one iteration of "for _, v := range ce.state.Validators" in PreVote / PreCommit
VoteStep(c) ==
    /\ callers[c].pc = "vote"
    /\ LET k == callers[c].k
           type == IF callers[c].op = "PreVote" THEN VoteTypePreVote
                                                ELSE VoteTypePreCommit
       IN IF k < Len(Validators)
          THEN /\ Votes' = Append(Votes, [ValidatorID |-> Validators[k + 1].ID,
                                          BlockHash   |-> blocks[callers[c].block].Hash,
                                          Type        |-> type])
               /\ callers' = [callers EXCEPT ![c].k = k + 1]
          ELSE /\ Votes' = Votes
               /\ callers' = [callers EXCEPT ![c].pc = "Unlock"]
    /\ UNCHANGED <<CurrentHeight, CurrentRound, Validators, ProposerIndex, FinalizedBlocks,
                   blocks, validators, last, Mutex, started>>

\* the counting loop of FinalizeBlock
CountStep(c) ==
    /\ callers[c].pc = "count"
    /\ callers' = [callers EXCEPT
                      ![c].pc = "decide",
                      ![c].preCommits = CountPreCommits(Votes, blocks[callers[c].block].Hash)]
    /\ UNCHANGED <<engine, blocks, validators, last, Mutex, started>>

\* mutant: the votes of the finalized round are kept
DecideStepKeepVotes(c) ==
    /\ callers[c].pc = "decide"
    /\ LET totalValidators == Len(Validators)
           block == callers[c].block
       IN IF totalValidators = 0
          THEN /\ callers' = [callers EXCEPT ![c].pc = "Unlock", ![c].err = "NoValidators"]
               /\ UNCHANGED <<engine, blocks>>
          ELSE IF QuorumReached(callers[c].preCommits, totalValidators)
          THEN /\ blocks' = [blocks EXCEPT ![block].Finalized = TRUE]
               /\ FinalizedBlocks' = Append(FinalizedBlocks, block)
               /\ CurrentHeight' = CurrentHeight + 1
               /\ ProposerIndex' = NextProposerIndex(ProposerIndex, totalValidators)
               /\ callers' = [callers EXCEPT ![c].pc = "Unlock"]
               /\ UNCHANGED <<CurrentRound, Validators, Votes>>
          ELSE /\ callers' = [callers EXCEPT ![c].pc = "Unlock",
                                             ![c].err = "QuorumNotReached"]
               /\ UNCHANGED <<engine, blocks>>
    /\ UNCHANGED <<validators, last, Mutex, started>>

\* the rest of FinalizeBlock: the NoValidators return, the percentage test and
\* the finalization
DecideStep(c) ==
    /\ callers[c].pc = "decide"
    /\ LET totalValidators == Len(Validators)
           block == callers[c].block
       IN IF totalValidators = 0
          THEN /\ callers' = [callers EXCEPT ![c].pc = "Unlock", ![c].err = "NoValidators"]
               /\ UNCHANGED <<engine, blocks>>
          ELSE IF QuorumReached(callers[c].preCommits, totalValidators)
          THEN /\ blocks' = [blocks EXCEPT ![block].Finalized = TRUE]
               /\ FinalizedBlocks' = Append(FinalizedBlocks, block)
               /\ CurrentHeight' = CurrentHeight + 1
               /\ ProposerIndex' = NextProposerIndex(ProposerIndex, totalValidators)
               /\ Votes' = <<>>
               /\ callers' = [callers EXCEPT ![c].pc = "Unlock"]
               /\ UNCHANGED <<CurrentRound, Validators>>
          ELSE /\ callers' = [callers EXCEPT ![c].pc = "Unlock",
                                             ![c].err = "QuorumNotReached"]
               /\ UNCHANGED <<engine, blocks>>
    /\ UNCHANGED <<validators, last, Mutex, started>>

\* mutant: the Mutex is released on the successful return only
UnlockOnSuccess(c) ==
    /\ callers[c].pc = "Unlock"
    /\ Mutex' = (callers[c].err /= "nil")
    /\ last' = Call(callers[c].op, callers[c].block, callers[c].err, callers[c].ret)
    /\ callers' = [callers EXCEPT ![c] = IdleCaller]
    /\ UNCHANGED <<engine, blocks, validators, started>>

\* defer ce.state.Mutex.Unlock(): runs on every return of the body
Unlock(c) ==
    /\ callers[c].pc = "Unlock"
    /\ Mutex' = FALSE
    /\ last' = Call(callers[c].op, callers[c].block, callers[c].err, callers[c].ret)
    /\ callers' = [callers EXCEPT ![c] = IdleCaller]
    /\ UNCHANGED <<engine, blocks, validators, started>>

\* the steps of a call once it is made
Run(c) ==
    \/ Lock(c) /\ UNCHANGED demo
    \/ ProposeBody(c) /\ UNCHANGED demo
    \/ VoteStep(c) /\ UNCHANGED demo
    \/ CountStep(c) /\ UNCHANGED demo
    \/ DecideStep(c) /\ UNCHANGED demo
    \/ Unlock(c) /\ UNCHANGED demo

InitConcurrent ==
    /\ \E n \in 0..MaxValidators : NewInMemoryConsensusEngine(Snapshot(n))
    /\ NewValidatorManager
    /\ blocks \in {<<>>, <<ZeroBlock>>}
    /\ last = Call("New", 0, "nil", 0)
    /\ NoDemo
    /\ NoCallers

NextConcurrent ==
    \/ \E c \in Callers :
          started < MaxCalls /\ Invoke(c, "ProposeBlock", 0) /\ UNCHANGED demo
    \/ \E c \in Callers, op \in EngineOps \ {"ProposeBlock"}, b \in DOMAIN blocks :
          started < MaxCalls /\ Invoke(c, op, b) /\ UNCHANGED demo
    \/ \E c \in Callers : Lock(c) /\ UNCHANGED demo
    \/ \E c \in Callers : ProposeBody(c) /\ UNCHANGED demo
    \/ \E c \in Callers : VoteStep(c) /\ UNCHANGED demo
    \/ \E c \in Callers : CountStep(c) /\ UNCHANGED demo
    \/ \E c \in Callers : DecideStep(c) /\ UNCHANGED demo
    \/ \E c \in Callers : Unlock(c) /\ UNCHANGED demo

SpecConcurrent == InitConcurrent /\ [][NextConcurrent]_vars

(***************************************************************************)
(* FinalizeBlock called by several goroutines for the block b that one     *)
(* caller proposed and pre-committed once                                  *)
(***************************************************************************)
\* the state after ProposeBlock and PreCommit(b) on a snapshot of n validators
InitRace ==
    /\ \E n \in 1..MaxValidators :
          /\ CurrentHeight = 1
          /\ CurrentRound = 0
          /\ Validators = Snapshot(n)
          /\ ProposerIndex = 0
          /\ Votes = CastVotes(<<>>, Snapshot(n), BlockHash(1), VoteTypePreCommit)
          /\ FinalizedBlocks = <<>>
    /\ blocks = <<[Height |-> 1, Hash |-> BlockHash(1), Proposer |-> ValID(1),
                   Finalized |-> FALSE]>>
    /\ NewValidatorManager
    /\ last = Call("PreCommit", 1, "nil", 0)
    /\ NoDemo
    /\ NoCallers

NextRace ==
    \/ \E c \in Callers :
          started < MaxCalls /\ Invoke(c, "FinalizeBlock", 1) /\ UNCHANGED demo
    \/ \E c \in Callers : Lock(c) /\ UNCHANGED demo
    \/ \E c \in Callers : CountStep(c) /\ UNCHANGED demo
    \/ \E c \in Callers : DecideStep(c) /\ UNCHANGED demo
    \/ \E c \in Callers : Unlock(c) /\ UNCHANGED demo

SpecRace == InitRace /\ [][NextRace]_vars

\* the Go scheduler runs every runnable goroutine, and a goroutine blocked in
\* Lock is woken when the Mutex is released
SpecConcurrentFair ==
    SpecConcurrent /\ \A c \in Callers : WF_vars(Run(c))

(***************************************************************************)
(* Properties                                                              *)
(***************************************************************************)
\* the number of pre_commit votes for a hash in a vote sequence
PreCommitCount(votes, hash) ==
    Cardinality({k \in DOMAIN votes :
                    votes[k].BlockHash = hash /\ votes[k].Type = "pre_commit"})

\* C1: with n > 0 validators and c pre_commit votes for block.hash in the vote
\* sequence, FinalizeBlock(block) succeeds iff floor(c*100/n) >= 67 and fails with
\* QuorumNotReached otherwise; n = 3: c = 2 fails, c = 3 succeeds; for n in
\* {3, 4, 10, 100} the smallest such c (3, 3, 7, 67) succeeds and c - 1 fails.
C1_QuorumBoundary ==
    [][(last'.op = "FinalizeBlock" /\ Len(Validators) > 0) =>
          LET n == Len(Validators)
              c == PreCommitCount(Votes, blocks[last'.arg].Hash)
          IN /\ (last'.err = "nil") <=> ((c * 100) \div n >= 67)
             /\ last'.err \in {"nil", "QuorumNotReached"}
             /\ <<n, c>> \in {<<3, 3>>, <<4, 3>>, <<10, 7>>, <<100, 67>>}
                   => last'.err = "nil"
             /\ <<n, c>> \in {<<3, 2>>, <<4, 2>>, <<10, 6>>, <<100, 66>>}
                   => last'.err = "QuorumNotReached"
      ]_vars

\* 3 validators, 2 pre-commits for the block: finalization was refused
C1_Witness ==
    /\ last.op = "FinalizeBlock"
    /\ last.err = "QuorumNotReached"
    /\ Len(Validators) = 3
    /\ PreCommitCount(Votes, blocks[last.arg].Hash) = 2

\* C2: a successful FinalizeBlock(block) sets the block's finalized flag, appends
\* exactly that block to the finalized history, adds 1 to CurrentHeight, moves
\* ProposerIndex to (ProposerIndex + 1) mod validatorCount and empties the votes;
\* the PreVote that follows leaves as many votes as there are validators.
C2_FinalizeAdvances ==
    [][/\ (last'.op = "FinalizeBlock" /\ last'.err = "nil") =>
             /\ blocks'[last'.arg].Finalized = TRUE
             /\ FinalizedBlocks' = FinalizedBlocks \o <<last'.arg>>
             /\ CurrentHeight' = CurrentHeight + 1
             /\ ProposerIndex' = (ProposerIndex + 1) % Len(Validators)
             /\ Votes' = <<>>
       /\ (last.op = "FinalizeBlock" /\ last.err = "nil" /\ last'.op = "PreVote") =>
             Len(Votes') = Len(Validators)
      ]_vars

\* the second finalization over 2 validators wrapped the proposer index to 0
C2_Witness ==
    /\ last.op = "FinalizeBlock"
    /\ last.err = "nil"
    /\ Len(Validators) = 2
    /\ Len(FinalizedBlocks) = 2
    /\ blocks[FinalizedBlocks[2]].Finalized
    /\ CurrentHeight = 3
    /\ ProposerIndex = 0
    /\ Votes = <<>>

\* C3: a failing FinalizeBlock (QuorumNotReached, or NoValidators on an empty
\* snapshot) leaves height, proposer index, finalized history, votes and the
\* blocks as they were; only a successful FinalizeBlock empties the votes.
C3_FailedFinalizeKeepsState ==
    [][/\ (last'.op = "FinalizeBlock" /\ last'.err # "nil") =>
             /\ last'.err = (IF Len(Validators) = 0 THEN "NoValidators"
                                                    ELSE "QuorumNotReached")
             /\ CurrentHeight' = CurrentHeight
             /\ ProposerIndex' = ProposerIndex
             /\ FinalizedBlocks' = FinalizedBlocks
             /\ Votes' = Votes
             /\ blocks' = blocks
       /\ (Len(Votes') < Len(Votes)) =>
             (last'.op = "FinalizeBlock" /\ last'.err = "nil" /\ Votes' = <<>>)
      ]_vars

\* a refused finalization with votes outstanding
C3_Witness ==
    /\ last.op = "FinalizeBlock"
    /\ last.err = "QuorumNotReached"
    /\ Len(Votes) > 0
    /\ ~blocks[last.arg].Finalized

\* C4: ProposeBlock fails with NoValidators on an empty validator list; otherwise
\* it returns a new, not finalized block at CurrentHeight whose proposer is the ID
\* of the validator at ProposerIndex; either way the engine state is unchanged.
C4_ProposeBlock ==
    [][last'.op = "ProposeBlock" =>
          /\ engine' = engine
          /\ \A b \in DOMAIN blocks : blocks'[b] = blocks[b]
          /\ IF Len(Validators) = 0
             THEN last'.err = "NoValidators" /\ blocks' = blocks
             ELSE /\ last'.err = "nil"
                  /\ DOMAIN blocks' = DOMAIN blocks \cup {last'.ret}
                  /\ last'.ret \notin DOMAIN blocks
                  /\ blocks'[last'.ret].Finalized = FALSE
                  /\ blocks'[last'.ret].Height = CurrentHeight
                  /\ blocks'[last'.ret].Proposer = Validators[ProposerIndex + 1].ID
      ]_vars

\* a block proposed at height 2 by the second validator
C4_Witness ==
    /\ last.op = "ProposeBlock"
    /\ last.err = "nil"
    /\ CurrentHeight = 2
    /\ blocks[last.ret].Height = 2
    /\ blocks[last.ret].Proposer = "val2"
    /\ ~blocks[last.ret].Finalized

\* C5: PreVote(block) / PreCommit(block) appends one vote per validator of the
\* snapshot, in snapshot order, for block.Hash with type pre_vote / pre_commit;
\* the votes already there keep place and content; height, proposer index and
\* finalized history are unchanged.
C5_VotesAppended ==
    [][last'.op \in {"PreVote", "PreCommit"} =>
          /\ Len(Votes') = Len(Votes) + Len(Validators)
          /\ \A k \in 1..Len(Votes) : Votes'[k] = Votes[k]
          /\ \A k \in 1..Len(Validators) :
                /\ Votes'[Len(Votes) + k].ValidatorID = Validators[k].ID
                /\ Votes'[Len(Votes) + k].BlockHash = blocks[last'.arg].Hash
                /\ Votes'[Len(Votes) + k].Type =
                      (IF last'.op = "PreVote" THEN "pre_vote" ELSE "pre_commit")
          /\ CurrentHeight' = CurrentHeight
          /\ ProposerIndex' = ProposerIndex
          /\ FinalizedBlocks' = FinalizedBlocks
      ]_vars

\* a second round of votes appended behind a first one
C5_Witness ==
    /\ last.op = "PreCommit"
    /\ Len(Validators) = 3
    /\ Len(Votes) = 6
    /\ Votes[1].Type = "pre_vote"
    /\ Votes[6].ValidatorID = "val3"

\* the proposer of the k-th finalized block
ProposerOf(k) == blocks[FinalizedBlocks[k]].Proposer

\* how often a validator proposed among the finalized blocks from..to
TimesProposer(id, from, to) == Cardinality({k \in from..to : ProposerOf(k) = id})

\* C6: round-robin fairness. With V > 0 validators the proposers of consecutive
\* successful finalizations follow the cyclic order of the snapshot
\* (validator[0], validator[1], ..., validator[V-1], validator[0], ...), and over
\* any N consecutive finalizations each validator proposes floor(N/V) or
\* ceil(N/V) times.
C6_RoundRobin ==
    LET V == Len(Validators)
        F == Len(FinalizedBlocks)
    IN /\ \A k \in 1..F : ProposerOf(k) = Validators[((k - 1) % V) + 1].ID
       /\ (last.op = "ProposeBlock" /\ last.err = "nil") =>
             blocks[last.ret].Proposer = Validators[(F % V) + 1].ID
       /\ \A from \in 1..F : \A to \in from..F : \A v \in 1..V :
             LET N == to - from + 1
                 t == TimesProposer(Validators[v].ID, from, to)
             IN t = N \div V \/ t = (N + V - 1) \div V

\* seven finalizations over three validators: val1 proposed 3 times, val3 twice
C6_Witness ==
    /\ Len(Validators) = 3
    /\ Len(FinalizedBlocks) = 7
    /\ TimesProposer("val1", 1, 7) = 3
    /\ TimesProposer("val3", 1, 7) = 2
    /\ ProposerOf(5) = "val2"

\* C7: under the reference driver (propose, preVote, preCommit, finalize, repeated)
\* on a non-empty snapshot every FinalizeBlock succeeds; after k iterations
\* CurrentHeight = k + 1 and the finalized history holds k blocks of heights 1..k;
\* with 3 validators the first proposer is validator[0], and after the first
\* finalization the height is 2 and the proposer is validator[1].
C7_ReferenceDriver ==
    /\ last.op = "FinalizeBlock" => last.err = "nil"
    /\ pc \in {"propose", "prevote", "precommit", "done"} =>
          /\ CurrentHeight = loopI + 1
          /\ Len(FinalizedBlocks) = loopI
          /\ \A k \in 1..loopI : blocks[FinalizedBlocks[k]].Height = k
    /\ (pc = "prevote" /\ Len(Validators) = 3 /\ loopI = 0) =>
          blocks[loopBlock].Proposer = Validators[1].ID
    /\ (pc = "prevote" /\ Len(Validators) = 3 /\ loopI = 1) =>
          /\ CurrentHeight = 2
          /\ blocks[loopBlock].Height = 2
          /\ blocks[loopBlock].Proposer = Validators[2].ID

\* the second iteration over 3 validators has proposed its block
C7_Witness ==
    /\ pc = "prevote"
    /\ Len(Validators) = 3
    /\ loopI = 1
    /\ last.op = "ProposeBlock"
    /\ blocks[FinalizedBlocks[1]].Finalized
    /\ blocks[loopBlock].Proposer = "val2"

\* C8: stake eligibility. For an ID not yet in the registry RegisterNode succeeds
\* iff the stake is at least MinValidatorStake (28846); every stake below the
\* minimum gives InsufficientStake and leaves the registry unchanged; a successful
\* RegisterNode stores the node under its ID with status active, whatever status
\* the caller supplied.
C8_StakeEligibility ==
    [][last'.op = "RegisterNode" =>
          LET node == last'.arg
          IN /\ node.ID \notin DOMAIN validators =>
                   ((last'.err = "nil") <=> (node.StakeAmount >= 28846))
             /\ node.StakeAmount < 28846 =>
                   (last'.err = "InsufficientStake" /\ validators' = validators)
             /\ last'.err = "nil" =>
                   /\ DOMAIN validators' = DOMAIN validators \cup {node.ID}
                   /\ validators'[node.ID].ID = node.ID
                   /\ validators'[node.ID].StakeAmount = node.StakeAmount
                   /\ validators'[node.ID].Status = "active"
      ]_vars

\* a node of exactly the minimum stake, handed in as jailed, is stored active
C8_Witness ==
    /\ last.op = "RegisterNode"
    /\ last.err = "nil"
    /\ last.arg.StakeAmount = 28846
    /\ last.arg.Status = "jailed"
    /\ validators[last.arg.ID].Status = "active"

\* C9 as stated: once an ID is registered, every later RegisterNode with that ID
\* returns DuplicateValidator and leaves the record unchanged, also after a
\* deregistration or a slash; the number of records grows by one per successful
\* registration and by zero otherwise.
C9_DuplicateAlways ==
    [][/\ (last'.op = "RegisterNode" /\ last'.arg.ID \in DOMAIN validators) =>
             (last'.err = "DuplicateValidator" /\ validators' = validators)
       /\ Cardinality(DOMAIN validators') = Cardinality(DOMAIN validators) +
             (IF last'.op = "RegisterNode" /\ last'.err = "nil" THEN 1 ELSE 0)
      ]_vars

\* C9 amended: once an ID is registered, every later RegisterNode with that ID
\* fails and leaves the record unchanged, also after a deregistration or a slash:
\* with DuplicateValidator when the offered stake is at least MinValidatorStake,
\* with InsufficientStake when it is below (the stake is checked first); the
\* number of records grows by one per successful registration and by zero
\* otherwise.
C9_DuplicateRejected ==
    [][/\ (last'.op = "RegisterNode" /\ last'.arg.ID \in DOMAIN validators) =>
             /\ last'.err = (IF last'.arg.StakeAmount >= 28846
                             THEN "DuplicateValidator" ELSE "InsufficientStake")
             /\ validators' = validators
       /\ Cardinality(DOMAIN validators') = Cardinality(DOMAIN validators) +
             (IF last'.op = "RegisterNode" /\ last'.err = "nil" THEN 1 ELSE 0)
      ]_vars

\* a second registration of a slashed validator was refused as a duplicate
C9_Witness ==
    /\ last.op = "RegisterNode"
    /\ last.err = "DuplicateValidator"
    /\ validators[last.arg.ID].Status = "slashed"
    /\ validators[last.arg.ID].StakeAmount # last.arg.StakeAmount

\* C10: DeregisterNode(id) fails with ValidatorNotFound and changes nothing when id
\* is absent; otherwise it sets the status of that validator to inactive, keeps
\* its stake and keeps the record; no registry operation ever removes an ID.
C10_DeregisterKeepsRecord ==
    [][/\ last'.op = "DeregisterNode" =>
             LET id == last'.arg
             IN IF id \notin DOMAIN validators
                THEN last'.err = "ValidatorNotFound" /\ validators' = validators
                ELSE /\ last'.err = "nil"
                     /\ DOMAIN validators' = DOMAIN validators
                     /\ validators'[id].Status = "inactive"
                     /\ validators'[id].StakeAmount = validators[id].StakeAmount
                     /\ validators'[id].ID = validators[id].ID
                     /\ \A other \in DOMAIN validators \ {id} :
                           validators'[other] = validators[other]
       /\ DOMAIN validators \subseteq DOMAIN validators'
      ]_vars

\* a deregistered validator is still in the registry with its stake
C10_Witness ==
    /\ last.op = "DeregisterNode"
    /\ last.err = "nil"
    /\ validators[last.arg].Status = "inactive"
    /\ validators[last.arg].StakeAmount = 57692
    /\ Cardinality(DOMAIN validators) = 2

\* C11: UpdateValidator(node) fails with ValidatorNotFound and changes nothing when
\* node.ID is not in the registry; it never changes the ID of a record: every
\* record stored under key k has ID = k; it changes no record but the one keyed
\* by node.ID.
C11_UpdateKeepsID ==
    [][/\ last'.op = "UpdateValidator" =>
             LET node == last'.arg
             IN IF node.ID \notin DOMAIN validators
                THEN last'.err = "ValidatorNotFound" /\ validators' = validators
                ELSE /\ last'.err = "nil"
                     /\ DOMAIN validators' = DOMAIN validators
                     /\ validators'[node.ID] = node
                     /\ \A other \in DOMAIN validators \ {node.ID} :
                           validators'[other] = validators[other]
       /\ \A k \in DOMAIN validators' : validators'[k].ID = k
      ]_vars

\* an update lowered the stake of one of two records below the minimum
C11_Witness ==
    /\ last.op = "UpdateValidator"
    /\ last.err = "nil"
    /\ Cardinality(DOMAIN validators) = 2
    /\ validators[last.arg.ID] = last.arg
    /\ last.arg.StakeAmount = 28845
    /\ \E other \in DOMAIN validators : validators[other].StakeAmount = 57692

Abs(x) == IF x < 0 THEN -x ELSE x

Max(a, b) == IF a >= b THEN a ELSE b

\* the reward the claim states for id in the current registry
StatedReward(id) ==
    LET actives == {v \in DOMAIN validators : validators[v].Status = "active"}
        totalActiveStake == SumStake(actives)
    IN IF id \notin DOMAIN validators \/ totalActiveStake = 0
       THEN 0
       ELSE (validators[id].StakeAmount * 1000) \div totalActiveStake

\* with exactly two active validators, id and other, the two rewards are in the
\* proportion of the stakes up to integer division
Proportional(id, other, reward) ==
    LET sA == validators[id].StakeAmount
        sB == validators[other].StakeAmount
    IN Abs(reward * sB - StatedReward(other) * sA) < Max(sA, sB)

TwoActive(id, other) ==
    /\ id /= other
    /\ {v \in DOMAIN validators : validators[v].Status = "active"} = {id, other}

Penalty(stake, cause) ==
    IF cause \in {"double_signing", "equivocation"} THEN stake \div 2
    ELSE IF cause = "invalid_block" THEN stake \div 4
    ELSE stake \div 10

\* C13: SlashNode(id, cause) fails with ValidatorNotFound and changes nothing when
\* id is absent; otherwise the penalty taken from the stake is floor(stake/2) for
\* double_signing and equivocation, floor(stake/4) for invalid_block, floor(stake/10)
\* for downtime and any unknown cause (a remainder below the minimum stake is
\* zeroed, see C14), the status becomes slashed whatever it was, and no other
\* record changes.
C13_SlashPenalty ==
    [][last'.op = "SlashNode" =>
          LET id == last'.arg[1]
              cause == last'.arg[2]
          IN IF id \notin DOMAIN validators
             THEN last'.err = "ValidatorNotFound" /\ validators' = validators
             ELSE LET left == validators[id].StakeAmount
                                 - Penalty(validators[id].StakeAmount, cause)
                  IN /\ last'.err = "nil"
                     /\ DOMAIN validators' = DOMAIN validators
                     /\ validators'[id].Status = "slashed"
                     /\ validators'[id].StakeAmount = (IF left >= 28846 THEN left ELSE 0)
                     /\ validators'[id].ID = validators[id].ID
                     /\ validators'[id].Commission = validators[id].Commission
                     /\ \A other \in DOMAIN validators \ {id} :
                           validators'[other] = validators[other]
      ]_vars

\* 57692 slashed for an invalid block: 14423 taken, 43269 left
C13_Witness ==
    /\ last.op = "SlashNode"
    /\ last.err = "nil"
    /\ last.arg[2] = "invalid_block"
    /\ validators[last.arg[1]].StakeAmount = 43269
    /\ validators[last.arg[1]].Status = "slashed"

\* C14: slashing floor. Right after a successful SlashNode the stake is 0 or at
\* least MinValidatorStake; it is 0 exactly when stake minus penalty is below
\* MinValidatorStake; it never exceeds the stake before, and the subtraction
\* never goes below zero.
C14_SlashingFloor ==
    [][(last'.op = "SlashNode" /\ last'.err = "nil") =>
          LET id == last'.arg[1]
              before == validators[id].StakeAmount
              taken == calculateSlashAmount(before, last'.arg[2])
              after == validators'[id].StakeAmount
          IN /\ after = 0 \/ after >= 28846
             /\ (after = 0) <=> (before - taken < 28846)
             /\ after <= before
             /\ taken <= before
             /\ before - taken >= 0
      ]_vars

\* a slash for downtime left less than the minimum, so nothing is left
C14_Witness ==
    /\ last.op = "SlashNode"
    /\ last.err = "nil"
    /\ last.arg[2] = "downtime"
    /\ validators[last.arg[1]].StakeAmount = 0
    /\ validators[last.arg[1]].Status = "slashed"

\* C15: every successful SlashNode appends exactly one SlashRecord to the slash
\* history, and no operation alters or removes a record.
C15_SlashRecorded ==
    [][/\ (last'.op = "SlashNode" /\ last'.err = "nil") =>
             Len(SlashRecords') = Len(SlashRecords) + 1
       /\ \A k \in DOMAIN SlashRecords :
             k \in DOMAIN SlashRecords' /\ SlashRecords'[k] = SlashRecords[k]
      ]_vars

\* the caller is inside the body of its operation: past Lock, not yet past Unlock
InBody(c) == callers[c].pc \in {"propose", "vote", "count", "decide", "Unlock"}

\* C16: with several callers invoking ProposeBlock, PreVote, PreCommit and
\* FinalizeBlock concurrently, at most one operation is inside its body at any
\* time; the Mutex is released on every return, the NoValidators and
\* QuorumNotReached returns included, so it is free whenever no operation is
\* running; and every started operation eventually completes.
C16_MutualExclusion ==
    /\ [](/\ Cardinality({c \in Callers : InBody(c)}) <= 1
          /\ Mutex <=> (\E c \in Callers : InBody(c)))
    /\ [][\A c \in Callers :
             (callers[c].pc /= "idle" /\ callers'[c].pc = "idle") =>
                 /\ Mutex' = FALSE
                 /\ last'.op = callers[c].op
                 /\ last'.err = callers[c].err]_vars
    /\ \A c \in Callers : (callers[c].pc /= "idle") ~> (callers[c].pc = "idle")

\* a FinalizeBlock returned QuorumNotReached and released the Mutex while the
\* other caller was waiting for it
C16_Witness ==
    /\ last.op = "FinalizeBlock"
    /\ last.err = "QuorumNotReached"
    /\ Mutex = FALSE
    /\ \E c \in Callers : callers[c].pc = "Lock"

\* the vote PreVote / PreCommit appends for the k-th validator
VoteOf(k, hash, type) ==
    [ValidatorID |-> Validators[k].ID, BlockHash |-> hash, Type |-> type]

\* the vote sequence is made of whole rounds, one per call, each going through
\* the validators in order for one hash and one phase; the last one may be the
\* round the caller inside PreVote / PreCommit is appending
RoundsContiguous ==
    \A k \in DOMAIN Votes :
        LET V == Len(Validators)
            first == k - ((k - 1) % V)
        IN Votes[k] = VoteOf(((k - 1) % V) + 1, Votes[first].BlockHash, Votes[first].Type)

\* a FinalizeBlock that is counting or deciding sees whole rounds only
NoPartialRoundSeen ==
    \A c \in Callers :
        callers[c].pc \in {"count", "decide"} =>
            /\ \A d \in Callers : callers[d].pc /= "vote"
            /\ Len(Validators) > 0 => Len(Votes) % Len(Validators) = 0

\* C17: under concurrent callers the engine state is that of the operations run
\* one after the other: the votes appended by one PreVote or PreCommit call form
\* a contiguous run of the vote sequence, never interleaved with the votes of
\* another call; a FinalizeBlock never sees a partly appended round; and the
\* engine state changes only by a step of the one caller inside its body.
C17_Serialized ==
    /\ [](RoundsContiguous /\ NoPartialRoundSeen)
    /\ [][/\ (engine' /= engine \/ blocks' /= blocks) =>
                \E c \in Callers :
                    /\ InBody(c)
                    /\ callers'[c] /= callers[c]
                    /\ \A d \in Callers \ {c} : ~InBody(d) /\ callers'[d] = callers[d]
          /\ \A c \in Callers :
                (callers[c].pc = "vote" /\ callers'[c].pc = "Unlock") =>
                    LET V == Len(Validators)
                        type == IF callers[c].op = "PreVote" THEN "pre_vote" ELSE "pre_commit"
                    IN /\ Len(Votes) >= V
                       /\ \A k \in 1..V :
                             Votes[Len(Votes) - V + k] =
                                 VoteOf(k, blocks[callers[c].block].Hash, type)
         ]_vars

\* a PreVote has returned, a PreCommit is halfway through its loop over two
\* validators and a FinalizeBlock is waiting at Lock
C17_Witness ==
    /\ Len(Validators) = 2
    /\ last.op = "PreVote"
    /\ Len(Votes) = 3
    /\ Votes[3].Type = "pre_commit"
    /\ \E c, d \in Callers :
          /\ callers[c].pc = "vote" /\ callers[c].op = "PreCommit" /\ callers[c].k = 1
          /\ callers[d].pc = "Lock" /\ callers[d].op = "FinalizeBlock"

\* C18: after any sequence of registry operations every stored record has a
\* commission rate between 0 and 10000 basis points.
C18_CommissionInRange ==
    \A id \in DOMAIN validators :
        validators[id].Commission >= 0 /\ validators[id].Commission <= 10000

\* C19: a block passes both voting phases in order before it is finalized:
\* whenever FinalizeBlock(block) succeeds, a PreVote and after it a PreCommit for
\* the block's hash were performed since the previous successful finalization.
\* The votes are emptied by a successful finalization only, so the vote sequence
\* holds what PreVote and PreCommit appended since then, in call order.
C19_PhasesInOrder ==
    [][(last'.op = "FinalizeBlock" /\ last'.err = "nil") =>
          \E i, j \in DOMAIN Votes :
              /\ i < j
              /\ Votes[i].Type = "pre_vote"
              /\ Votes[i].BlockHash = blocks[last'.arg].Hash
              /\ Votes[j].Type = "pre_commit"
              /\ Votes[j].BlockHash = blocks[last'.arg].Hash
      ]_vars

\* C20: two distinct proposals at the same height do not have the same hash, and
\* a block just returned by ProposeBlock, for which no vote was cast since, is not
\* finalized on the pre-commits cast for an earlier proposal.
C20_NoStaleVotes ==
    [][/\ \A b1, b2 \in DOMAIN blocks' :
             (b1 /= b2 /\ blocks'[b1].Height = blocks'[b2].Height) =>
                 blocks'[b1].Hash /= blocks'[b2].Hash
       /\ (/\ last.op = "ProposeBlock"
           /\ last.err = "nil"
           /\ last'.op = "FinalizeBlock"
           /\ last'.arg = last.ret) => last'.err /= "nil"
      ]_vars

\* C21: in every reachable engine state the vote sequence holds at most one vote
\* per (validator ID, phase, block hash), so the pre-commits FinalizeBlock counts
\* for a block never exceed the number of validators.
C21_OneVoteEach ==
    /\ \A i, j \in DOMAIN Votes : i /= j => Votes[i] /= Votes[j]
    /\ \A b \in DOMAIN blocks : PreCommitCount(Votes, blocks[b].Hash) <= Len(Validators)

\* C22: when every block handed to the engine was returned by ProposeBlock, the
\* finalized history is append-only, the heights of its entries start at 1 and
\* increase strictly, and no two entries are the same block or have the same
\* hash.
C22_FinalizedOnce ==
    [][(\A b \in DOMAIN blocks' : blocks'[b].Height >= 1) =>
          /\ Len(FinalizedBlocks') >= Len(FinalizedBlocks)
          /\ SubSeq(FinalizedBlocks', 1, Len(FinalizedBlocks)) = FinalizedBlocks
          /\ FinalizedBlocks' /= <<>> => blocks'[FinalizedBlocks'[1]].Height = 1
          /\ \A i, j \in DOMAIN FinalizedBlocks' :
                i < j =>
                    /\ blocks'[FinalizedBlocks'[i]].Height < blocks'[FinalizedBlocks'[j]].Height
                    /\ FinalizedBlocks'[i] /= FinalizedBlocks'[j]
                    /\ blocks'[FinalizedBlocks'[i]].Hash /= blocks'[FinalizedBlocks'[j]].Hash
      ]_vars

\* C23: no Round Engine operation (ProposeBlock, PreVote, PreCommit,
\* FinalizeBlock, GetState) changes the registry: the registered IDs and every
\* validator's stake and status are the same before and after.
C23_EngineLeavesRegistry ==
    [][last'.op \in {"ProposeBlock", "PreVote", "PreCommit", "FinalizeBlock", "GetState"} =>
          /\ DOMAIN validators' = DOMAIN validators
          /\ \A id \in DOMAIN validators :
                /\ validators'[id].StakeAmount = validators[id].StakeAmount
                /\ validators'[id].Status = validators[id].Status
      ]_vars

\* a block was finalized while the registry held a deregistered validator and
\* one registered after the engine was built
C23_Witness ==
    /\ last.op = "FinalizeBlock"
    /\ last.err = "nil"
    /\ Cardinality(DOMAIN validators) = Len(Validators) + 1
    /\ \E id \in DOMAIN validators : validators[id].Status = "inactive"

\* C24: static membership. The engine's validator list is fixed at construction
\* and changed by no engine or registry operation: a validator deregistered or
\* slashed afterwards (even to stake 0) is still the proposer in its turn, still
\* votes in every PreVote and PreCommit and still counts in the quorum
\* denominator, and a validator registered afterwards never does. The calls of
\* the round loop are told by the statement the loop leaves.
C24_StaticMembership ==
    [][/\ Validators' = Validators
       /\ (pc = "propose" /\ pc' = "prevote") =>
             /\ last'.op = "ProposeBlock"
             /\ last'.err = "nil"
             /\ blocks'[last'.ret].Proposer = Validators[ProposerIndex + 1].ID
       /\ (pc \in {"prevote", "precommit"} /\ pc' /= pc) =>
             /\ last'.op = (IF pc = "prevote" THEN "PreVote" ELSE "PreCommit")
             /\ Len(Votes') = Len(Votes) + Len(Validators)
             /\ \A k \in DOMAIN Validators :
                   /\ Votes'[Len(Votes) + k].ValidatorID = Validators[k].ID
                   /\ Votes'[Len(Votes) + k].BlockHash = blocks[last'.arg].Hash
       /\ (pc = "finalize" /\ pc' /= pc) =>
             /\ last'.op = "FinalizeBlock"
             /\ (last'.err = "nil") <=>
                   (PreCommitCount(Votes, blocks[last'.arg].Hash) * 100) \div Len(Validators) >= 67
       /\ \A k \in DOMAIN Votes' : Votes'[k].ValidatorID /= Newcomer.ID
      ]_vars

\* the proposer of the block just proposed was slashed to stake 0 in the
\* registry, a newcomer is registered, and blocks were finalized meanwhile
C24_Witness ==
    /\ last.op = "ProposeBlock"
    /\ last.err = "nil"
    /\ blocks[last.ret].Proposer \in DOMAIN validators
    /\ validators[blocks[last.ret].Proposer].Status = "slashed"
    /\ validators[blocks[last.ret].Proposer].StakeAmount = 0
    /\ Newcomer.ID \in DOMAIN validators
    /\ Len(FinalizedBlocks) >= 2

\* C25: after any sequence of register, deregister, update and slash every
\* validator whose status is active has a stake of at least MinValidatorStake.
C25_ActiveIsEligible ==
    \A id \in DOMAIN validators :
        validators[id].Status = "active" => validators[id].StakeAmount >= 28846

\* C27: in every reachable engine state CurrentHeight = 1 + the number of
\* finalized blocks, CurrentRound = 0 and, with V > 0 validators in the snapshot,
\* 0 <= ProposerIndex < V and ProposerIndex = (number of finalized blocks) mod V.
C27_HeightAndProposer ==
    /\ CurrentHeight = 1 + Len(FinalizedBlocks)
    /\ CurrentRound = 0
    /\ Len(Validators) > 0 =>
          /\ ProposerIndex >= 0
          /\ ProposerIndex < Len(Validators)
          /\ ProposerIndex = Len(FinalizedBlocks) % Len(Validators)

\* two blocks finalized over three validators: height 3, proposer index 2
C27_Witness ==
    /\ last.op = "FinalizeBlock"
    /\ last.err = "nil"
    /\ Len(Validators) = 3
    /\ Len(FinalizedBlocks) = 2
    /\ CurrentHeight = 3
    /\ ProposerIndex = 2

\* C28: after a single PreCommit(b) on a non-empty snapshot, FinalizeBlock(b)
\* called by two callers concurrently succeeds for exactly one of them and fails
\* with QuorumNotReached for the other: b is in the finalized history once and
\* CurrentHeight has advanced by exactly 1. The calls run one at a time, so the
\* one that succeeds is the first to return.
C28_OneFinalization ==
    /\ [](/\ Len(FinalizedBlocks) <= 1
          /\ CurrentHeight = 1 + Len(FinalizedBlocks)
          /\ \A k \in DOMAIN FinalizedBlocks : FinalizedBlocks[k] = 1)
    /\ [][\A c \in Callers :
             (callers[c].pc = "Unlock" /\ callers'[c].pc = "idle") =>
                 /\ FinalizedBlocks = <<1>>
                 /\ CurrentHeight = 2
                 /\ IF last.op = "PreCommit"
                    THEN last'.err = "nil"
                    ELSE last'.err = "QuorumNotReached"]_vars

\* of the two calls made, one has returned nil and the other is about to return
\* QuorumNotReached
C28_Witness ==
    /\ started = 2
    /\ last.op = "FinalizeBlock"
    /\ last.err = "nil"
    /\ Len(Validators) = 3
    /\ FinalizedBlocks = <<1>>
    /\ CurrentHeight = 2
    /\ \E c \in Callers : callers[c].pc = "Unlock" /\ callers[c].err = "QuorumNotReached"

\* the validators with status active
ActiveIDs == {v \in DOMAIN validators : validators[v].Status = "active"}

\* C26: GetActiveValidators returns exactly the validators whose status is
\* active, GetValidatorCount their number and GetTotalStake the sum of their
\* stakes; so deregistering or slashing an active validator lowers the count by
\* exactly 1 and the total by that validator's whole stake before the operation,
\* and doing so to a validator that is not active changes neither.
C26_Aggregates ==
    [][/\ last'.op = "GetActiveValidators" => last'.ret = ActiveIDs
       /\ last'.op = "GetValidatorCount" => last'.ret = Cardinality(ActiveIDs)
       /\ last'.op = "GetTotalStake" => last'.ret = SumStake(ActiveIDs)
       /\ last'.op \in {"GetActiveValidators", "GetValidatorCount", "GetTotalStake"} =>
             validators' = validators
       /\ (last'.op = "DeregisterNode" \/ last'.op = "SlashNode") /\ last'.err = "nil" =>
             LET id == IF last'.op = "SlashNode" THEN last'.arg[1] ELSE last'.arg
             IN IF validators[id].Status = "active"
                THEN /\ GetValidatorCount' = GetValidatorCount - 1
                     /\ GetTotalStake' = GetTotalStake - validators[id].StakeAmount
                ELSE /\ GetValidatorCount' = GetValidatorCount
                     /\ GetTotalStake' = GetTotalStake
      ]_vars

\* of two active validators one was slashed for downtime: 51923 of its stake is
\* left, yet the total dropped by its whole 57692 to the other's 28846
C26_Witness ==
    /\ last.op = "SlashNode"
    /\ last.err = "nil"
    /\ last.arg[2] = "downtime"
    /\ validators[last.arg[1]].StakeAmount = 51923
    /\ GetValidatorCount = 1
    /\ GetTotalStake = 28846

\* C29: leaving the active status is irreversible under register, deregister and
\* slash: a validator whose status is inactive or slashed is not made active by
\* any of the three, and none of them raises the stake of any validator.
C29_NoWayBack ==
    [][last'.op \in {"RegisterNode", "DeregisterNode", "SlashNode"} =>
          \A id \in DOMAIN validators :
              /\ id \in DOMAIN validators'
              /\ validators[id].Status \in {"inactive", "slashed"} =>
                    validators'[id].Status /= "active"
              /\ validators'[id].StakeAmount <= validators[id].StakeAmount
      ]_vars

\* a register for the ID of a slashed validator was refused and left it slashed
C29_Witness ==
    /\ last.op = "RegisterNode"
    /\ last.err = "DuplicateValidator"
    /\ last.arg.ID \in DOMAIN validators
    /\ validators[last.arg.ID].Status = "slashed"
    /\ validators[last.arg.ID].StakeAmount < last.arg.StakeAmount

\* the sum of what CalculateRewards returns for the IDs of a set
RECURSIVE SumRewards(_)
SumRewards(ids) ==
    IF ids = {} THEN 0
    ELSE LET id == CHOOSE x \in ids : TRUE
         IN CalculateValidatorReward(validators[id].StakeAmount,
                                     SumStake(GetActiveValidators), 1000)
            + SumRewards(ids \ {id})

\* C30 as stated: the rewards of the active validators add up to at most 1000,
\* and CalculateRewards(id) <= 1000 for every registered id, the inactive and
\* slashed ones included.
C30_RewardBoundedAll ==
    [][last'.op = "CalculateRewards" =>
          /\ SumRewards(ActiveIDs) <= 1000
          /\ last'.arg \in DOMAIN validators => last'.ret <= 1000
      ]_vars

\* C30, amended: the rewards of the active validators add up to at most 1000 and
\* CalculateRewards(id) <= 1000 for every active id; for a registered id that is
\* not active the result is floor(stake * 1000 / totalActiveStake), which is above
\* 1000 exactly when stake * 1000 >= 1001 * totalActiveStake > 0.
C30_RewardBounded ==
    [][last'.op = "CalculateRewards" =>
          /\ SumRewards(ActiveIDs) <= 1000
          /\ last'.arg \in ActiveIDs => last'.ret <= 1000
          /\ last'.arg \in DOMAIN validators \ ActiveIDs =>
                LET total == SumStake(ActiveIDs)
                    stake == validators[last'.arg].StakeAmount
                IN /\ last'.ret = (IF total = 0 THEN 0 ELSE (stake * 1000) \div total)
                   /\ (last'.ret > 1000) <=> (total > 0 /\ stake * 1000 >= 1001 * total)
      ]_vars

\* an inactive validator holding twice the active stake is given 2000
C30_Witness ==
    /\ last.op = "CalculateRewards"
    /\ last.ret = 2000
    /\ validators[last.arg].Status = "inactive"
    /\ validators[last.arg].StakeAmount = 57692
    /\ \E other \in ActiveIDs : ActiveIDs = {other} /\ validators[other].StakeAmount = 28846

\* C31: IsConsensusReached(votes, totalValidators) decides as FinalizeBlock does:
\* called with the c pre-commits for the block among the votes and the n
\* validators, it is true exactly when FinalizeBlock succeeds on those votes, and
\* it is false for n = 0, where FinalizeBlock fails with NoValidators.
C31_HelperAgrees ==
    [][/\ last'.op = "IsConsensusReached" =>
             LET c == last'.arg[1]
                 n == last'.arg[2]
             IN /\ last'.ret = (n > 0 /\ (c * 100) \div n >= 67)
                /\ n = 0 => last'.ret = FALSE
       /\ last'.op = "FinalizeBlock" =>
             LET c == PreCommitCount(Votes, blocks[last'.arg].Hash)
                 n == Len(Validators)
             IN /\ (last'.err = "nil") <=> IsConsensusReached(c, n)
                /\ n = 0 => last'.err = "NoValidators" /\ ~IsConsensusReached(c, n)
       /\ (/\ last.op = "IsConsensusReached"
           /\ last'.op = "FinalizeBlock"
           /\ last.arg = <<PreCommitCount(Votes, blocks[last'.arg].Hash), Len(Validators)>>)
             => (last.ret <=> last'.err = "nil")
      ]_vars

\* 67 pre-commits over 100 validators: the helper said yes, and the block, not
\* finalized before, was finalized by the call that followed
C31_Witness ==
    /\ last.op = "FinalizeBlock"
    /\ last.err = "nil"
    /\ Len(Validators) = 100
    /\ FinalizedBlocks = <<1>>
    /\ IsConsensusReached(67, 100)
    /\ ~IsConsensusReached(66, 100)

====
